---- MODULE Spec2Model ----
(***************************************************************************)
(* PatentProfiler backend API (src/server.js).                             *)
(*                                                                         *)
(* server.js holds three drafts of the same Express server.  The model     *)
(* covers their middleware and request handlers; a route of the model is a *)
(* handler of one draft:                                                   *)
(*   "options"      any OPTIONS request, answered by the middleware of the *)
(*                  first draft (lines 12-18)                              *)
(*   "root"         GET /                       first draft (20-22)        *)
(*   "ipdata"       GET /api/ipdata             first draft (41-62)        *)
(*   "byCustomer"   GET /api/ipdata/byCustomer  first draft (67-86)        *)
(*   "full"         GET /api/ipdata/full        first draft (91-156)       *)
(*   "ipdata2"      GET /api/ipdata             second draft (187-229)     *)
(*   "root3"        GET /                       third draft (252-254)      *)
(*   "ipdata3"      GET /api/ipdata             third draft (273-295)      *)
(*   "byCustomer3"  GET /api/ipdata/byCustomer  third draft (300-320)      *)
(*   "full3"        GET /api/ipdata/full        third draft (325-391)      *)
(* together with the safeFetch helpers (lines 27-36, 176-185, 259-268).    *)
(* The handlers of the third draft compute what those of the first draft   *)
(* compute; the drafts differ in the headers their middleware sets         *)
(* (lines 12-18 and 245-250) and in the text of GET /.  The middleware of  *)
(* the third draft has no OPTIONS branch: it calls next(), and what then   *)
(* answers an OPTIONS request is Express, not this file.                   *)
(*                                                                         *)
(* Strings are sequences of one-character strings, so that trim,           *)
(* encodeURIComponent, JSON.stringify and the regular expressions of the   *)
(* handlers are computed and not assumed.  The count fields of a response  *)
(* body are gathered under counts, its URLs under debug or links; the      *)
(* lastUpdated field of the second draft, a reading of the clock, is left  *)
(* out.                                                                    *)
(***************************************************************************)
EXTENDS Integers, Sequences, FiniteSets, TLC

VARIABLES
    pc,        \* pc[r]: "idle", "await" (inside await Promise.all), "done",
               \* "threw" (the handler threw, no response is sent)
    route,     \* route[r]: the handler serving request r, NoRoute before arrival
    query,     \* query[r]: req.query of request r
    calls,     \* calls[r]: the upstream lookups request r issued, in issue order
    fetchSt,   \* fetchSt[r][s]: "none", "pending" (inside await fetch), "reading"
               \* (inside await response.json()), "settled", "hung"
    raw,       \* raw[r][s]: what the upstream answered to the lookup of source s
    res,       \* res[r][s]: what safeFetch returned to the handler
    resp       \* resp[r]: the HTTP response sent to the caller, NoResp before

vars == <<pc, route, query, calls, fetchSt, raw, res, resp>>

----------------------------------------------------------------------------
(* Bounds of the model *)

\* longest item list an upstream body carries
MaxItems == 2

----------------------------------------------------------------------------
(* Strings *)

RECURSIVE SeqsUpTo(_, _)
SeqsUpTo(S, n) ==
    IF n = 0 THEN {<<>>}
    ELSE LET shorter == SeqsUpTo(S, n - 1)
         IN  shorter \cup {Append(t, c) : t \in {u \in shorter : Len(u) = n - 1}, c \in S}

\* A character is a one-character string; a code point that a string of this
\* notation cannot hold is written by its name, "U+00A0".  Printable ASCII, in
\* the order of its codes 32..126 (the grave accent, 96, by its name):
Ascii ==
    <<" ", "!", "\"", "#", "$", "%", "&", "'", "(", ")", "*", "+", ",", "-", ".", "/",
      "0", "1", "2", "3", "4", "5", "6", "7", "8", "9", ":", ";", "<", "=", ">", "?",
      "@", "A", "B", "C", "D", "E", "F", "G", "H", "I", "J", "K", "L", "M", "N", "O",
      "P", "Q", "R", "S", "T", "U", "V", "W", "X", "Y", "Z", "[", "\\", "]", "^", "_",
      "U+0060", "a", "b", "c", "d", "e", "f", "g", "h", "i", "j", "k", "l", "m", "n", "o",
      "p", "q", "r", "s", "t", "u", "v", "w", "x", "y", "z", "{", "|", "}", "~">>

\* the other characters, with their codes
Named ==
    {<<"\t", 9>>, <<"\n", 10>>, <<"U+000B", 11>>, <<"\f", 12>>, <<"\r", 13>>,
     <<"U+00A0", 160>>, <<"U+1680", 5760>>, <<"U+2000", 8192>>, <<"U+2001", 8193>>,
     <<"U+2002", 8194>>, <<"U+2003", 8195>>, <<"U+2004", 8196>>, <<"U+2005", 8197>>,
     <<"U+2006", 8198>>, <<"U+2007", 8199>>, <<"U+2008", 8200>>, <<"U+2009", 8201>>,
     <<"U+200A", 8202>>, <<"U+2028", 8232>>, <<"U+2029", 8233>>, <<"U+202F", 8239>>,
     <<"U+205F", 8287>>, <<"U+3000", 12288>>, <<"U+D800", 55296>>, <<"U+FEFF", 65279>>}

\* the code of a character
CodeOf(c) ==
    IF \E i \in DOMAIN Ascii : Ascii[i] = c
    THEN 31 + (CHOOSE i \in DOMAIN Ascii : Ascii[i] = c)
    ELSE (CHOOSE n \in Named : n[1] = c)[2]

\* WhiteSpace and LineTerminator: tab, LF, VT, FF, CR, space, NBSP, the space
\* separators (Zs), LS, PS and the byte order mark
WhiteSpaceCodes ==
    {9, 10, 11, 12, 13, 32, 160, 5760, 8232, 8233, 8239, 8287, 12288, 65279}
    \cup (8192..8202)

IsSpace(c) == CodeOf(c) \in WhiteSpaceCodes

RECURSIVE TrimStart(_)
TrimStart(s) ==
    IF s # <<>> /\ IsSpace(Head(s)) THEN TrimStart(Tail(s)) ELSE s

RECURSIVE TrimEnd(_)
TrimEnd(s) ==
    IF s # <<>> /\ IsSpace(s[Len(s)]) THEN TrimEnd(SubSeq(s, 1, Len(s) - 1)) ELSE s

\* String.prototype.trim
Trim(s) == TrimEnd(TrimStart(s))

\* the characters encodeURIComponent leaves alone: A-Z a-z 0-9 - _ . ! ~ * ' ( )
Unreserved ==
    {Ascii[i] : i \in (17..26) \cup (34..59) \cup (66..91)}
    \cup {"-", "_", ".", "!", "~", "*", "'", "(", ")"}

HexDigits ==
    <<"0", "1", "2", "3", "4", "5", "6", "7", "8", "9", "A", "B", "C", "D", "E", "F">>

\* %XX for one byte
PercentByte(b) == <<"%", HexDigits[(b \div 16) + 1], HexDigits[(b % 16) + 1]>>

\* the UTF-8 bytes of a code below 65536, each as %XX
PercentUtf8(n) ==
    IF n < 128 THEN PercentByte(n)
    ELSE IF n < 2048 THEN PercentByte(192 + (n \div 64)) \o PercentByte(128 + (n % 64))
    ELSE PercentByte(224 + (n \div 4096))
         \o PercentByte(128 + ((n \div 64) % 64))
         \o PercentByte(128 + (n % 64))

\* a surrogate that stands alone
IsLoneSurrogate(c) == CodeOf(c) \in 55296..57343

\* encodeURIComponent throws URIError: URI malformed
UriMalformed(s) == \E i \in DOMAIN s : IsLoneSurrogate(s[i])

\* encodeURIComponent of a string that is not malformed
RECURSIVE encodeURIComponent(_)
encodeURIComponent(s) ==
    IF s = <<>> THEN <<>>
    ELSE (IF Head(s) \in Unreserved THEN <<Head(s)>> ELSE PercentUtf8(CodeOf(Head(s))))
         \o encodeURIComponent(Tail(s))

LowerCase == <<"a","b","c","d","e","f","g","h","i","j","k","l","m",
               "n","o","p","q","r","s","t","u","v","w","x","y","z">>
UpperCase == <<"A","B","C","D","E","F","G","H","I","J","K","L","M",
               "N","O","P","Q","R","S","T","U","V","W","X","Y","Z">>
Digits == {"0","1","2","3","4","5","6","7","8","9"}

ToUpperChar(c) ==
    IF \E i \in 1..26 : LowerCase[i] = c
    THEN UpperCase[CHOOSE i \in 1..26 : LowerCase[i] = c]
    ELSE c

ToUpper(s) == [i \in 1..Len(s) |-> ToUpperChar(s[i])]

\* pattern p occurs in text t at position i
MatchesAt(t, p, i) ==
    /\ i + Len(p) - 1 <= Len(t)
    /\ \A j \in 1..Len(p) : t[i + j - 1] = p[j]

Contains(t, p) == \E i \in 1..Len(t) : MatchesAt(t, p, i)

----------------------------------------------------------------------------
(* JSON values, as far as the handlers look into them *)

JUndefined == [kind |-> "undefined"]
JNull == [kind |-> "null"]
JNumber(n) == [kind |-> "number", n |-> n]
JString(chars) == [kind |-> "string", chars |-> chars]
JArray(l) == [kind |-> "array", items |-> l]
\* an object whose only property the handlers may read is at path p
JObject(p, v) == [kind |-> "object", path |-> p, val |-> v]
EmptyObject == JObject("", JUndefined)
\* a body response.json() cannot parse
Unparseable == [kind |-> "unparseable"]

\* JavaScript truthiness
Truthy(v) ==
    CASE v.kind \in {"undefined", "null"} -> FALSE
      [] v.kind = "number" -> v.n # 0
      [] v.kind = "string" -> v.chars # <<>>
      [] OTHER -> TRUE

\* a || b
Or(a, b) == IF Truthy(a) THEN a ELSE b

\* json?.path : undefined on null and undefined, and on a value without the property
Get(json, p) ==
    IF json.kind = "object" /\ json.path = p THEN json.val ELSE JUndefined

\* v.length (v?.length gives the same on the values Or and Get produce): the
\* length of an array or of a string, the length property of an object
JsLength(v) ==
    CASE v.kind = "array" -> JNumber(Len(v.items))
      [] v.kind = "string" -> JNumber(Len(v.chars))
      [] v.kind = "object" /\ v.path = "length" -> v.val
      [] OTHER -> JUndefined

\* (x || 0) where x is a length: the value the response carries, a number unless
\* the length property of an object held something else
OrZero(x) ==
    LET v == Or(x, JNumber(0))
    IN  IF v.kind = "number" THEN v.n ELSE v

\* records of the registries
PatentIds == {"A1", "A2"}
PatentItems == {[patent_number |-> id] : id \in PatentIds}
TrademarkItems == {[doc |-> "D"]}

\* pending-application records: objects with one string property
ItemProvisional == [key |-> <<"t">>,
                    val |-> <<"P","r","o","v","i","s","i","o","n","a","l">>]
ItemPct == [key |-> <<"n">>, val |-> <<"W","O","2","0">>]
ItemCountry == [key |-> <<"c","o","u","n","t","r","y">>, val |-> <<"U","S">>]
ItemUtility == [key |-> <<"t">>, val |-> <<"u","t","i","l","i","t","y">>]
IbdItems == {ItemProvisional, ItemPct, ItemCountry, ItemUtility}

\* JSON.stringify of such a record: {"key":"val"}
JSONstringify(item) ==
    <<"{", "\"">> \o item.key \o <<"\"", ":", "\"">> \o item.val \o <<"\"", "}">>

\* /provisional/i.test(t)
TestProvisional(t) ==
    Contains(ToUpper(t), <<"P","R","O","V","I","S","I","O","N","A","L">>)

\* /"WO|WO\/|WO\d{2}/i.test(t)
TestPct(t) ==
    LET u == ToUpper(t)
    IN  \/ Contains(u, <<"\"", "W", "O">>)
        \/ Contains(u, <<"W", "O", "/">>)
        \/ \E i \in 1..Len(u) :
              /\ MatchesAt(u, <<"W", "O">>, i)
              /\ i + 3 <= Len(u)
              /\ u[i + 2] \in Digits
              /\ u[i + 3] \in Digits

\* /NATIONAL|COUNTRY|DESIGNATED/i.test(t)
TestForeign(t) ==
    LET u == ToUpper(t)
    IN  \/ Contains(u, <<"N","A","T","I","O","N","A","L">>)
        \/ Contains(u, <<"C","O","U","N","T","R","Y">>)
        \/ Contains(u, <<"D","E","S","I","G","N","A","T","E","D">>)

----------------------------------------------------------------------------
(* The upstream registries *)

Sources == {"patents", "trademarks", "ibd"}

ItemsOf(s) ==
    CASE s = "patents" -> PatentItems
      [] s = "trademarks" -> TrademarkItems
      [] s = "ibd" -> IbdItems

\* the property paths under which a registry may deliver its list
PathsOf(s) ==
    CASE s = "patents" -> {"patents"}
      [] s = "trademarks" -> {"results", "response.docs"}
      [] s = "ibd" -> {"results"}

\* a value that is no array: a number, a string, an object with a length
NonArrays == {JNumber(5), JString(<<"x", "y">>), JObject("length", JNumber(3))}

\* the bodies an answer can carry, whatever its status
Bodies(s) ==
    {JNull, EmptyObject, Unparseable}
    \cup {JObject(p, v) : p \in PathsOf(s), v \in NonArrays}
    \cup {JObject(p, JArray(l)) : p \in PathsOf(s), l \in SeqsUpTo(ItemsOf(s), MaxItems)}

\* the body of a response whose body was not read
Unread == [kind |-> "unread"]

NetErr == [kind |-> "neterr"]
Resp(ok, body) == [kind |-> "resp", ok |-> ok, body |-> body]

\* what a lookup can end with: fetch rejected, or a response and its body
Outcomes(s) ==
    {NetErr} \cup {Resp(ok, b) : ok \in BOOLEAN, b \in Bodies(s)}

NoAnswer == [kind |-> "none"]

\* fetch rejected, or response.json() threw
FetchThrows(o) == o.kind = "neterr" \/ o.body = Unparseable

\* the lookup failed: network error, non-2xx status or unparseable body
Failed(o) == o.kind = "neterr" \/ ~o.ok \/ o.body = Unparseable

----------------------------------------------------------------------------
(* safeFetch *)

\* first draft: { ok: response.ok, json } or { ok: false, error }
safeFetch(o) ==
    IF FetchThrows(o)
    THEN [ok |-> FALSE, json |-> JUndefined, error |-> TRUE]
    ELSE [ok |-> o.ok, json |-> o.body, error |-> FALSE]

\* second draft: the parsed body, or null on any failure; the body of a non-2xx
\* response is not read
safeFetch2(o) ==
    IF o.kind = "neterr" THEN JNull
    ELSE IF ~o.ok THEN JNull
    ELSE IF o.body = Unparseable THEN JNull
    ELSE o.body

\* the safeFetch of the draft a handler belongs to
SafeFetchOf(rt, o) == IF rt = "ipdata2" THEN safeFetch2(o) ELSE safeFetch(o)

----------------------------------------------------------------------------
(* Requests *)

Reqs == {"r1", "r2"}
Routes ==
    {"options", "root", "ipdata", "byCustomer", "full", "ipdata2",
     "root3", "ipdata3", "byCustomer3", "full3"}

\* the handlers of one path in the first and the third draft
RootRoutes == {"root", "root3"}
IpdataRoutes == {"ipdata", "ipdata3"}
CustomerRoutes == {"byCustomer", "byCustomer3"}
FullRoutes == {"full", "full3"}
NoRoute == "none"

\* a query-string parameter as Express parses it: absent, a string, an array of
\* strings (the key repeated), an object (the key with brackets)
Missing == [kind |-> "undefined"]
Param(str) == [kind |-> "string", str |-> str]
ParamArray(items) == [kind |-> "array", items |-> items]
ParamObject == [kind |-> "object"]

\* !x
Falsy(p) == p.kind = "undefined" \/ p = Param(<<>>)

\* (req.query.x || "")
ParamOrEmpty(p) == IF Falsy(p) THEN Param(<<>>) ELSE p

\* (req.query.x || "").trim() throws a TypeError: an array and an object have no
\* trim method
TrimThrows(p) == ParamOrEmpty(p).kind # "string"

\* (req.query.x || "").trim() of a parameter that has the method
Trimmed(p) == Trim(ParamOrEmpty(p).str)

RECURSIVE Join(_)
Join(items) ==
    IF items = <<>> THEN <<>>
    ELSE IF Len(items) = 1 THEN items[1]
    ELSE items[1] \o <<",">> \o Join(Tail(items))

ObjectObject ==
    <<"[", "o", "b", "j", "e", "c", "t", " ", "O", "b", "j", "e", "c", "t", "]">>

\* the string a truthy parameter is converted to
StringOf(p) ==
    CASE p.kind = "string" -> p.str
      [] p.kind = "array" -> Join(p.items)
      [] p.kind = "object" -> ObjectObject

AssigneeValues ==
    {Missing, Param(<<>>), Param(<<"\t">>), Param(<<"A">>),
     Param(<<"\t", "A", "U+00A0">>), ParamArray(<< <<"A">>, <<"B">> >>), ParamObject}
\* assignees that tell the drafts of /api/ipdata apart, and that
\* encodeURIComponent escapes or refuses
EscapedValues == {Param(<<" ">>), Param(<<"A", "&", "B">>), Param(<<"U+D800">>)}
NumberValues ==
    {Missing, Param(<<"\t">>), Param(<<"7">>), ParamArray(<< <<"7">>, <<"8">> >>)}

\* the queries a route is called with: the parameters its handler does not read
\* are left out, tryVariants, which no handler reads, is varied on the first
\* draft of /api/ipdata
Queries(rt) ==
    [assignee : CASE rt \in {"ipdata", "ipdata2"} -> AssigneeValues \cup EscapedValues
                  [] rt \in {"ipdata3"} \cup FullRoutes -> AssigneeValues
                  [] OTHER -> {Missing},
     number : IF rt \in FullRoutes \cup CustomerRoutes THEN NumberValues ELSE {Missing},
     tryVariants : IF rt = "ipdata" THEN BOOLEAN ELSE {FALSE}]

\* the sources each handler looks up, in the order of its Promise.all
Lookups(rt) ==
    CASE rt \in IpdataRoutes -> <<"patents", "trademarks">>
      [] rt = "ipdata2" -> <<"patents", "ibd", "trademarks">>
      [] rt \in FullRoutes -> <<"patents", "trademarks">>
      [] OTHER -> <<>>

Range(f) == {f[i] : i \in DOMAIN f}

\* the URL of a lookup: the registry endpoint and the name put into it
Url(s, name) == [source |-> s, name |-> name]

\* the Access-Control headers: of the middleware of the first draft, of the
\* middleware of the third draft, of the success response of the second draft,
\* of its validation error
Cors ==
    {<<"Access-Control-Allow-Origin", "*">>,
     <<"Access-Control-Allow-Methods", "GET,OPTIONS">>,
     <<"Access-Control-Allow-Headers", "Content-Type">>}
Cors3 ==
    {<<"Access-Control-Allow-Origin", "*">>,
     <<"Access-Control-Allow-Methods", "GET">>,
     <<"Access-Control-Allow-Headers", "Content-Type">>}
Cors2 == {<<"Access-Control-Allow-Origin", "*">>}
NoCors == {}

\* the headers the middleware in front of a handler has set
MiddlewareHeaders(rt) ==
    CASE rt \in {"root3", "ipdata3", "byCustomer3", "full3"} -> Cors3
      [] rt = "ipdata2" -> NoCors
      [] OTHER -> Cors

NoResp == [status |-> 0]
BadRequest(msg, headers) == [status |-> 400, error |-> msg, headers |-> headers]

NoFetches == [s \in Sources |-> "none"]
NoAnswers == [s \in Sources |-> NoAnswer]

\* the URLs a handler builds for a name, in the order it fetches them
LookupUrls(rt, name) == [i \in DOMAIN Lookups(rt) |-> Url(Lookups(rt)[i], name)]

\* Promise.all([safeFetch(...), ...]): every lookup of the list is started
StartLookups(r, rt, name) ==
    /\ calls' = [calls EXCEPT ![r] = LookupUrls(rt, name)]
    /\ fetchSt' = [fetchSt EXCEPT
                     ![r] = [s \in Sources |->
                               IF s \in Range(Lookups(rt)) THEN "pending" ELSE "none"]]
    /\ pc' = [pc EXCEPT ![r] = "await"]
    /\ UNCHANGED <<raw, res, resp>>

\* return res.status(400).json({ error })
Reject(r, msg, headers) ==
    /\ resp' = [resp EXCEPT ![r] = BadRequest(msg, headers)]
    /\ pc' = [pc EXCEPT ![r] = "done"]
    /\ UNCHANGED <<calls, fetchSt, raw, res>>

\* the async handler throws before it sent anything: its promise rejects, no
\* response is sent
Throw(r) ==
    /\ pc' = [pc EXCEPT ![r] = "threw"]
    /\ UNCHANGED <<calls, fetchSt, raw, res, resp>>

\* res.json(body), ending the handler
Send(r, body) ==
    /\ resp' = [resp EXCEPT ![r] = body]
    /\ pc' = [pc EXCEPT ![r] = "done"]
    /\ UNCHANGED <<calls, fetchSt, raw, res>>

\* every lookup of the Promise.all has settled
AllSettled(r) ==
    \A s \in Range(Lookups(route[r])) : fetchSt[r][s] = "settled"

----------------------------------------------------------------------------
(* The middleware and GET / *)

\* first draft, if (req.method === "OPTIONS") return res.sendStatus(200): next()
\* is not called, whatever the path and the query.  The middleware of the third
\* draft sends nothing.
Options(r) ==
    /\ pc[r] = "idle"
    /\ route' = [route EXCEPT ![r] = "options"]
    /\ Send(r, [status |-> 200, text |-> "OK", headers |-> Cors])
    /\ UNCHANGED query

\* the text of GET /, the check mark U+2705 by its name
RootText(rt) ==
    IF rt = "root3" THEN "U+2705 PatentProfiler API is running"
    ELSE "U+2705 PatentProfiler API is running and ready"

GetRoot(r, rt) ==
    /\ pc[r] = "idle"
    /\ rt \in RootRoutes
    /\ route' = [route EXCEPT ![r] = rt]
    /\ Send(r, [status |-> 200, text |-> RootText(rt),
                headers |-> MiddlewareHeaders(rt)])
    /\ UNCHANGED query

----------------------------------------------------------------------------
(* GET /api/ipdata, first draft *)

\* (res.json?.patents || []).length || 0, and the same for results
CountAt(fetched, p) == OrZero(JsLength(Or(Get(fetched.json, p), JArray(<<>>))))

GetIpdata(r, rt, q) ==
    /\ pc[r] = "idle"
    /\ rt \in IpdataRoutes
    /\ route' = [route EXCEPT ![r] = rt]
    /\ query' = [query EXCEPT ![r] = q]
    /\ IF TrimThrows(q.assignee)
       THEN Throw(r)
       ELSE IF Trimmed(q.assignee) = <<>>
       THEN Reject(r, "Missing ?assignee=", MiddlewareHeaders(rt))
       ELSE StartLookups(r, rt, Trimmed(q.assignee))

\* a handler that gives up on every count as soon as one lookup is not ok
IpdataResponseAllOrNothing(assignee, lookups, fetched, headers) ==
    LET allOk == fetched["patents"].ok /\ fetched["trademarks"].ok
    IN  [status |-> 200,
         assignee |-> assignee,
         counts |-> [patents |-> IF allOk THEN CountAt(fetched["patents"], "patents")
                                 ELSE 0,
                     trademarks |-> IF allOk THEN CountAt(fetched["trademarks"], "results")
                                    ELSE 0],
         debug |-> lookups,
         headers |-> headers]

IpdataResponse(assignee, lookups, fetched, headers) ==
    [status |-> 200,
     assignee |-> assignee,
     counts |-> [patents |-> CountAt(fetched["patents"], "patents"),
                 trademarks |-> CountAt(fetched["trademarks"], "results")],
     debug |-> lookups,
     headers |-> headers]

\* the third draft sets Access-Control-Allow-Origin once more before res.json
\* (line 288), to the value its middleware gave it
RespondIpdata(r) ==
    /\ pc[r] = "await"
    /\ route[r] \in IpdataRoutes
    /\ AllSettled(r)
    /\ Send(r, IpdataResponse(Trimmed(query[r].assignee), calls[r], res[r],
                              MiddlewareHeaders(route[r])))
    /\ UNCHANGED <<route, query>>

----------------------------------------------------------------------------
(* GET /api/ipdata/byCustomer *)

\* the placeholders Math.floor(Math.random() * n) (+ 1) can draw
CustomerPlaceholders ==
    [pendingApps : 1..4, provisionals : 0..2, pctApps : 0..1, foreignNational : 0..2]

ByCustomerResponse(custNum, drawn, headers) ==
    [status |-> 200,
     customerNumber |-> custNum,
     counts |-> drawn,
     totalApps |-> drawn.pendingApps + drawn.provisionals + drawn.pctApps
                   + drawn.foreignNational,
     note |-> "Simulated public data (private USPTO data not accessible)",
     headers |-> headers]

GetByCustomer(r, rt, q) ==
    /\ pc[r] = "idle"
    /\ rt \in CustomerRoutes
    /\ route' = [route EXCEPT ![r] = rt]
    /\ query' = [query EXCEPT ![r] = q]
    /\ IF TrimThrows(q.number)
       THEN Throw(r)
       ELSE IF Trimmed(q.number) = <<>>
       THEN Reject(r, "Missing ?number=", MiddlewareHeaders(rt))
       ELSE \E drawn \in CustomerPlaceholders :
               Send(r, ByCustomerResponse(Trimmed(q.number), drawn,
                                          MiddlewareHeaders(rt)))

----------------------------------------------------------------------------
(* GET /api/ipdata, second draft *)

\* data?.a?.length || 0
LengthAt(data, p) == OrZero(JsLength(Get(data, p)))

\* (ibdData?.results || [])
ResultsOrEmpty(ibdData) == Or(Get(ibdData, "results"), JArray(<<>>))

\* .filter is not a function: the handler throws a TypeError
FilterThrows(ibdData) == ResultsOrEmpty(ibdData).kind # "array"

\* the three regular expressions on JSON.stringify(r), tabulated over the records
Classified ==
    [i \in IbdItems |->
        LET text == JSONstringify(i)
        IN  [provisional |-> TestProvisional(text),
             pct |-> TestPct(text),
             foreign |-> TestForeign(text)]]

\* list.filter(r => /.../i.test(JSON.stringify(r))).length, for the expression
\* named by test
FilterCount(l, test) == Cardinality({i \in 1..Len(l) : Classified[l[i]][test]})

\* encodeURIComponent(assignee) throws a URIError
EncodeThrows(p) == UriMalformed(StringOf(p))

\* encodeURIComponent(assignee), the parameter converted to a string first
Encoded(p) == encodeURIComponent(StringOf(p))

GetIpdata2(r, q) ==
    /\ pc[r] = "idle"
    /\ route' = [route EXCEPT ![r] = "ipdata2"]
    /\ query' = [query EXCEPT ![r] = q]
    /\ IF Falsy(q.assignee)
       THEN Reject(r, "Missing ?assignee=", MiddlewareHeaders("ipdata2"))
       ELSE IF EncodeThrows(q.assignee)
       THEN Throw(r)
       ELSE StartLookups(r, "ipdata2", Encoded(q.assignee))

\* the counts of the second draft
Ipdata2Counts(fetched) ==
    LET results == ResultsOrEmpty(fetched["ibd"]).items
    IN  [patents |-> LengthAt(fetched["patents"], "patents"),
         pendingApps |-> LengthAt(fetched["ibd"], "results"),
         pctApps |-> FilterCount(results, "pct"),
         foreignNational |-> FilterCount(results, "foreign"),
         provisionals |-> FilterCount(results, "provisional"),
         trademarks |-> LengthAt(fetched["trademarks"], "response.docs")]

\* the response echoes the parameter as it came and links the encoded name
Ipdata2Response(assignee, encoded, fetched) ==
    [status |-> 200,
     assignee |-> assignee,
     counts |-> Ipdata2Counts(fetched),
     source |-> <<"USPTO", "WIPO", "EPO">>,
     links |-> [wipo |-> encoded, epo |-> encoded],
     headers |-> Cors2]

\* a handler that fills pendingApps with the Math.random placeholder of the
\* simulated routes
RespondIpdata2Placeholder(r) ==
    /\ pc[r] = "await"
    /\ route[r] = "ipdata2"
    /\ AllSettled(r)
    /\ IF FilterThrows(res[r]["ibd"])
       THEN Throw(r)
       ELSE \E pendingApps \in 1..4 :
               Send(r, [Ipdata2Response(query[r].assignee, calls[r][1].name, res[r])
                          EXCEPT !.counts.pendingApps = pendingApps])
    /\ UNCHANGED <<route, query>>

RespondIpdata2(r) ==
    /\ pc[r] = "await"
    /\ route[r] = "ipdata2"
    /\ AllSettled(r)
    /\ IF FilterThrows(res[r]["ibd"])
       THEN Throw(r)
       ELSE Send(r, Ipdata2Response(query[r].assignee, calls[r][1].name, res[r]))
    /\ UNCHANGED <<route, query>>

----------------------------------------------------------------------------
(* GET /api/ipdata/full *)

GetFull(r, rt, q) ==
    /\ pc[r] = "idle"
    /\ rt \in FullRoutes
    /\ route' = [route EXCEPT ![r] = rt]
    /\ query' = [query EXCEPT ![r] = q]
    /\ IF TrimThrows(q.assignee) \/ TrimThrows(q.number)
       THEN Throw(r)
       ELSE IF Trimmed(q.assignee) = <<>> \/ Trimmed(q.number) = <<>>
       THEN Reject(r, "Missing assignee or customer number", MiddlewareHeaders(rt))
       ELSE StartLookups(r, rt, Trimmed(q.assignee))

\* the summary of the combined endpoint; the score is kept doubled, so that its
\* coefficients 4, 2, 2.5, 2.5, 1.5, 2 stay integers
FullResponse(assignee, custNum, lookups, fetched, drawn, headers) ==
    LET patents == CountAt(fetched["patents"], "patents")
        trademarks == CountAt(fetched["trademarks"], "results")
        pendingApps == drawn.pendingApps
        provisionals == drawn.provisionals
        pctApps == drawn.pctApps
        foreignNational == drawn.foreignNational
    IN  [status |-> 200,
         assignee |-> assignee,
         customerNumber |-> custNum,
         counts |-> [patents |-> patents,
                     trademarks |-> trademarks,
                     pendingApps |-> pendingApps,
                     provisionals |-> provisionals,
                     pctApps |-> pctApps,
                     foreignNational |-> foreignNational],
         ipStrengthScoreTimes2 |->
             patents * 8 + pendingApps * 4 + pctApps * 5 + foreignNational * 5
             + provisionals * 3 + trademarks * 4,
         estPortfolioValue |->
             10000 + patents * 60000 + pendingApps * 30000 + pctApps * 40000
             + foreignNational * 50000 + trademarks * 20000 + provisionals * 8000,
         debug |-> Append(lookups, Url("patentCenter", custNum)),
         headers |-> headers]

\* the placeholders Math.floor(Math.random() * n) + k can draw
Placeholders ==
    [pendingApps : 1..4, provisionals : 1..2, pctApps : 0..1, foreignNational : 0..2]

RespondFull(r) ==
    /\ pc[r] = "await"
    /\ route[r] \in FullRoutes
    /\ AllSettled(r)
    /\ \E drawn \in Placeholders :
          Send(r, FullResponse(Trimmed(query[r].assignee), Trimmed(query[r].number),
                               calls[r], res[r], drawn, MiddlewareHeaders(route[r])))
    /\ UNCHANGED <<route, query>>

----------------------------------------------------------------------------
(* The lookups in flight *)

\* await fetch(url) rejects: the registry cannot be reached
FetchRejects(r, s) ==
    /\ pc[r] = "await"
    /\ fetchSt[r][s] = "pending"
    /\ fetchSt' = [fetchSt EXCEPT ![r][s] = "settled"]
    /\ raw' = [raw EXCEPT ![r][s] = NetErr]
    /\ res' = [res EXCEPT ![r][s] = SafeFetchOf(route[r], NetErr)]
    /\ UNCHANGED <<pc, route, query, calls, resp>>

\* await fetch(url) resolves with the status line and the headers.  The first
\* draft goes on to read the body whatever the status; the second draft throws
\* on a non-2xx status, so that its safeFetch returns null with the body unread
FetchResolves(r, s, ok) ==
    /\ pc[r] = "await"
    /\ fetchSt[r][s] = "pending"
    /\ raw' = [raw EXCEPT ![r][s] = Resp(ok, Unread)]
    /\ IF route[r] = "ipdata2" /\ ~ok
       THEN /\ fetchSt' = [fetchSt EXCEPT ![r][s] = "settled"]
            /\ res' = [res EXCEPT ![r][s] = safeFetch2(Resp(ok, Unread))]
       ELSE /\ fetchSt' = [fetchSt EXCEPT ![r][s] = "reading"]
            /\ UNCHANGED res
    /\ UNCHANGED <<pc, route, query, calls, resp>>

\* a server that keeps the result of a lookup in a variable of the module, which
\* every request awaiting that registry then reads
BodyArrivesShared(r, s, b) ==
    /\ pc[r] = "await"
    /\ fetchSt[r][s] = "reading"
    /\ fetchSt' = [fetchSt EXCEPT ![r][s] = "settled"]
    /\ raw' = [raw EXCEPT ![r][s] = Resp(raw[r][s].ok, b)]
    /\ res' = [r2 \in Reqs |->
                 IF r2 = r \/ (pc[r2] = "await" /\ route[r2] = route[r])
                 THEN [res[r2] EXCEPT ![s] = SafeFetchOf(route[r], Resp(raw[r][s].ok, b))]
                 ELSE res[r2]]
    /\ UNCHANGED <<pc, route, query, calls, resp>>

\* await response.json() settles: the body b has arrived, is parsed or found
\* unparseable, and safeFetch hands its result to the handler
BodyArrives(r, s, b) ==
    /\ pc[r] = "await"
    /\ fetchSt[r][s] = "reading"
    /\ fetchSt' = [fetchSt EXCEPT ![r][s] = "settled"]
    /\ raw' = [raw EXCEPT ![r][s] = Resp(raw[r][s].ok, b)]
    /\ res' = [res EXCEPT ![r][s] = SafeFetchOf(route[r], Resp(raw[r][s].ok, b))]
    /\ UNCHANGED <<pc, route, query, calls, resp>>

\* the registry accepts the connection and never answers, or never ends the
\* body: fetch(url) is called without a timeout or an abort signal, so the
\* promise the handler awaits never settles
FetchHangs(r, s) ==
    /\ pc[r] = "await"
    /\ fetchSt[r][s] \in {"pending", "reading"}
    /\ fetchSt' = [fetchSt EXCEPT ![r][s] = "hung"]
    /\ UNCHANGED <<pc, route, query, calls, raw, res, resp>>

----------------------------------------------------------------------------
(* Specifications *)

Init ==
    /\ pc = [r \in Reqs |-> "idle"]
    /\ route = [r \in Reqs |-> NoRoute]
    /\ query = [r \in Reqs |-> [assignee |-> Missing, number |-> Missing,
                                tryVariants |-> FALSE]]
    /\ calls = [r \in Reqs |-> <<>>]
    /\ fetchSt = [r \in Reqs |-> NoFetches]
    /\ raw = [r \in Reqs |-> NoAnswers]
    /\ res = [r \in Reqs |-> NoAnswers]
    /\ resp = [r \in Reqs |-> NoResp]

\* one request at a time, against every answer the registries can give
Next ==
    \E r \in {"r1"} :
        \/ Options(r)
        \/ \E rt \in RootRoutes : GetRoot(r, rt)
        \/ \E rt \in IpdataRoutes : \E q \in Queries(rt) : GetIpdata(r, rt, q)
        \/ \E rt \in CustomerRoutes : \E q \in Queries(rt) : GetByCustomer(r, rt, q)
        \/ \E rt \in FullRoutes : \E q \in Queries(rt) : GetFull(r, rt, q)
        \/ \E q \in Queries("ipdata2") : GetIpdata2(r, q)
        \/ \E s \in Sources : FetchRejects(r, s)
        \/ \E s \in Sources : \E ok \in BOOLEAN : FetchResolves(r, s, ok)
        \/ \E s \in Sources : \E b \in Bodies(s) : BodyArrives(r, s, b)
        \/ \E s \in Sources : FetchHangs(r, s)
        \/ RespondIpdata(r)
        \/ RespondIpdata2(r)
        \/ RespondFull(r)

Spec == Init /\ [][Next]_vars

----------------------------------------------------------------------------
(* Two requests in flight at once *)

\* the queries and the answers of the concurrent runs
ConcQueries(rt) ==
    [assignee : IF rt \in IpdataRoutes \cup FullRoutes \cup {"ipdata2"}
                THEN {Missing, Param(<<"A">>)} ELSE {Missing},
     number : IF rt \in FullRoutes \cup CustomerRoutes THEN {Param(<<"7">>)} ELSE {Missing},
     tryVariants : {FALSE}]

ConcBodies(s) ==
    {JObject(p, JArray(<<i>>)) :
        p \in PathsOf(s), i \in ItemsOf(s) \ {ItemCountry, ItemUtility}}

NextConc ==
    \E r \in Reqs :
        \/ Options(r)
        \/ \E rt \in RootRoutes : GetRoot(r, rt)
        \/ \E rt \in IpdataRoutes : \E q \in ConcQueries(rt) : GetIpdata(r, rt, q)
        \/ \E q \in ConcQueries("byCustomer") : GetByCustomer(r, "byCustomer", q)
        \/ \E q \in ConcQueries("full") : GetFull(r, "full", q)
        \/ \E q \in ConcQueries("ipdata2") : GetIpdata2(r, q)
        \/ \E s \in Sources : FetchRejects(r, s)
        \/ \E s \in Sources : FetchResolves(r, s, TRUE)
        \/ \E s \in Sources : \E b \in ConcBodies(s) : BodyArrives(r, s, b)
        \/ \E s \in Sources : FetchHangs(r, s)
        \/ RespondIpdata(r)
        \/ RespondIpdata2(r)
        \/ RespondFull(r)

SpecConc == Init /\ [][NextConc]_vars

----------------------------------------------------------------------------
(* Vocabulary of the properties *)

\* the trimmed base name of request r: its assignee as a string, trimmed
BaseName(r) ==
    IF Falsy(query[r].assignee) THEN <<>> ELSE Trim(StringOf(query[r].assignee))

\* request r has run to its end: it responded, or its handler threw
Ended(r) == pc[r] \in {"done", "threw"}

\* request r was answered with the success response
Succeeded(r) == pc[r] = "done" /\ resp[r].status = 200

\* the count fields of the response that a registry feeds
CountFields(s) ==
    CASE s = "patents" -> {"patents"}
      [] s = "trademarks" -> {"trademarks"}
      [] s = "ibd" -> {"pendingApps", "pctApps", "foreignNational", "provisionals"}

\* the same, for the registries of route rt other than s
OtherFields(rt, s) == UNION {CountFields(s2) : s2 \in Range(Lookups(rt)) \ {s}}

\* what a handler makes of settled lookups: whether it throws, and its counts
HandlerThrows(rt, fetched) == rt = "ipdata2" /\ FilterThrows(fetched["ibd"])

HandlerCounts(rt, fetched) ==
    CASE rt \in IpdataRoutes -> IpdataResponse(<<>>, <<>>, fetched, {}).counts
      [] rt = "ipdata2" -> Ipdata2Counts(fetched)
      [] rt \in FullRoutes -> FullResponse(<<>>, <<>>, <<>>, fetched,
                                           CHOOSE d \in Placeholders : TRUE, {}).counts

\* the answers of a lookup that did not fail, tabulated by registry
SuccessTable == [s \in Sources |-> {o \in Outcomes(s) : ~Failed(o)}]
SuccessOutcomes(s) == SuccessTable[s]

----------------------------------------------------------------------------
(* C1: a failed lookup (network error, non-2xx status, unparseable body) never
   aborts the request.  For every request with a non-empty trimmed assignee
   that has ended, and every lookup of it that failed: had that lookup
   succeeded with any answer under which the handler responds, then the
   request as it ran has responded 200 too, and its counts for the other
   registries are the ones of that other run. *)
C1_FailureIsolated ==
    \A r \in Reqs :
        (Ended(r) /\ calls[r] # <<>> /\ BaseName(r) # <<>>) =>
            \A s \in Range(Lookups(route[r])) :
                Failed(raw[r][s]) =>
                    \A o \in SuccessOutcomes(s) :
                        LET alt == [res[r] EXCEPT ![s] = SafeFetchOf(route[r], o)]
                            altCounts == HandlerCounts(route[r], alt)
                        IN  ~HandlerThrows(route[r], alt) =>
                                /\ Succeeded(r)
                                /\ \A f \in OtherFields(route[r], s) :
                                      resp[r].counts[f] = altCounts[f]

\* the scenario of the claim at the size of the model: two patents, two
\* trademark documents, the pending-applications lookup fails
C1_Witness ==
    \E r \in Reqs :
        /\ Succeeded(r)
        /\ route[r] = "ipdata2"
        /\ raw[r]["ibd"] = NetErr
        /\ resp[r].counts.patents = 2
        /\ resp[r].counts.trademarks = 2
        /\ resp[r].counts.pendingApps = 0

(* C2: the request fails if and only if the assignee is missing or empty after
   trimming: then the response is the 400 validation error and no lookup was
   issued; any other request that responds, responds 200. *)
C2_ValidationOnly ==
    \A r \in Reqs :
        route[r] \in IpdataRoutes \cup {"ipdata2"} =>
            /\ (calls[r] # <<>> => BaseName(r) # <<>>)
            /\ (pc[r] = "done" =>
                  /\ resp[r].status = 400 <=> BaseName(r) = <<>>
                  /\ resp[r].status = 400 => calls[r] = <<>>
                  /\ resp[r].status # 400 => resp[r].status = 200)

(* C3: a lookup answered with a non-2xx status contributes zero to the counts
   of its registry, whatever body came with the status. *)
C3_NonOkCountsZero ==
    \A r \in Reqs :
        Succeeded(r) =>
            \A s \in Range(Lookups(route[r])) :
                (raw[r][s].kind = "resp" /\ ~raw[r][s].ok) =>
                    \A f \in CountFields(s) : resp[r].counts[f] = 0


(* C4: the trace returned with the response has exactly one entry per attempted
   lookup, in attempt order, and each entry records whether that lookup
   succeeded or failed; when every lookup failed, all counts are zero. *)
C4_TraceRecordsOutcomes ==
    \A r \in Reqs :
        (Succeeded(r) /\ route[r] \in IpdataRoutes) =>
            /\ Len(resp[r].debug) = Len(calls[r])
            /\ \A i \in DOMAIN calls[r] :
                  /\ resp[r].debug[i].source = calls[r][i].source
                  /\ resp[r].debug[i].name = calls[r][i].name
                  /\ "ok" \in DOMAIN resp[r].debug[i]
                  /\ resp[r].debug[i].ok = ~Failed(raw[r][calls[r][i].source])
            /\ (\A s \in Range(Lookups(route[r])) : Failed(raw[r][s])) =>
                  \A f \in DOMAIN resp[r].counts : resp[r].counts[f] = 0

\* what can still bring request r to its response: an outstanding lookup is
\* answered (or ended by a deadline), or the handler responds
Progress(r) ==
    \/ \E s \in Sources : FetchRejects(r, s)
    \/ \E s \in Sources : \E ok \in BOOLEAN : FetchResolves(r, s, ok)
    \/ \E s \in Sources : \E b \in Bodies(s) : BodyArrives(r, s, b)
    \/ RespondIpdata(r)
    \/ RespondIpdata2(r)
    \/ RespondFull(r)

(* C5: a request with a non-empty assignee is never left hanging: while it
   waits for its lookups, also for one the registry never answers, a step that
   brings it to its response (an answer, the deadline ending the lookup as a
   failure, the response) stays possible. *)
C5_NeverLeftHanging ==
    \A r \in Reqs :
        (pc[r] = "await" /\ route[r] \in IpdataRoutes) => ENABLED Progress(r)

\* the distinct patent identifiers an answer carries
ReturnedIds(o) ==
    LET list == Get(o.body, "patents")
    IN  IF list.kind = "array"
        THEN {list.items[i].patent_number : i \in DOMAIN list.items}
        ELSE {}

(* C6: the reported patent count is the number of distinct patent identifiers
   the patents lookups returned: an identifier returned twice counts once. *)
C6_PatentsDistinct ==
    \A r \in Reqs :
        (Succeeded(r) /\ "patents" \in Range(Lookups(route[r]))
                      /\ ~Failed(raw[r]["patents"])) =>
            resp[r].counts.patents = Cardinality(ReturnedIds(raw[r]["patents"]))

\* a sequence without its repeated elements, first occurrences kept
RECURSIVE Dedup(_)
Dedup(q) ==
    IF q = <<>> THEN <<>>
    ELSE LET front == Dedup(SubSeq(q, 1, Len(q) - 1))
         IN  IF q[Len(q)] \in Range(front) THEN front ELSE Append(front, q[Len(q)])

\* the names request r looked up, in the order it first used them
TriedNames(r) == Dedup([i \in DOMAIN calls[r] |-> calls[r][i].name])

Suffixes ==
    << <<" ", "L", "L", "C">>,
       <<" ", "L", ".", "L", ".", "C", ".">>,
       <<" ", "I", "N", "C">>,
       <<" ", "I", "N", "C", ".">>,
       <<" ", "C", "O", "R", "P">>,
       <<" ", "L", "T", "D">>,
       <<" ", "C", "O", "M", "P", "A", "N", "Y">> >>

\* the base name followed by its suffix variants
WithVariants(base) ==
    Dedup(<<base>> \o [i \in DOMAIN Suffixes |-> Trim(base \o Suffixes[i])])

(* C7: the names a request looks up start with the trimmed base name and hold
   no duplicate; with tryVariants=true the suffix variants follow, with
   tryVariants=false the sequence is the trimmed base name alone. *)
C7_Candidates ==
    \A r \in Reqs :
        (route[r] \in IpdataRoutes /\ calls[r] # <<>>) =>
            /\ TriedNames(r)[1] = BaseName(r)
            /\ query[r].tryVariants => TriedNames(r) = WithVariants(BaseName(r))
            /\ ~query[r].tryVariants => TriedNames(r) = <<BaseName(r)>>

\* two requests with identical inputs, answered identically by the registries
SameRun(a, b) ==
    /\ a # b
    /\ Succeeded(a)
    /\ Succeeded(b)
    /\ route[a] \in IpdataRoutes \cup CustomerRoutes \cup FullRoutes \cup {"ipdata2"}
    /\ route[a] = route[b]
    /\ query[a] = query[b]
    /\ raw[a] = raw[b]

(* C8 as stated: two requests with identical inputs and identical upstream
   answers report identical counts in every count field. *)
C8_IdenticalCounts ==
    \A a, b \in Reqs : SameRun(a, b) => resp[a].counts = resp[b].counts

(* C8 as amended: two such requests report identical patents and trademarks
   counts on every route that looks them up, and identical counts in every
   field on /api/ipdata; the pendingApps, provisionals, pctApps and
   foreignNational fields of /api/ipdata/full and of /api/ipdata/byCustomer
   are Math.random placeholders and may differ. *)
C8_IdenticalLookedUpCounts ==
    \A a, b \in Reqs :
        SameRun(a, b) =>
            /\ route[a] \notin CustomerRoutes =>
                  /\ resp[a].counts.patents = resp[b].counts.patents
                  /\ resp[a].counts.trademarks = resp[b].counts.trademarks
            /\ route[a] \in IpdataRoutes \cup {"ipdata2"} =>
                  resp[a].counts = resp[b].counts

C8_Witness ==
    \E a, b \in Reqs :
        /\ SameRun(a, b)
        /\ route[a] = "ipdata2"
        /\ resp[a].counts.patents = 1
        /\ resp[a].counts.pendingApps = 1
        /\ resp[a].counts.provisionals = 1
        /\ raw[a]["trademarks"] = NetErr

\* the lookups of request r as its handler receives them when nothing else runs
OwnFetched(r) ==
    [s \in Sources |->
        IF s \in Range(Lookups(route[r]))
        THEN SafeFetchOf(route[r], raw[r][s])
        ELSE NoAnswer]

\* the outcome request r has when it runs alone against the answers raw[r]; the
\* placeholders of /api/ipdata/full are any draw of Math.random
AloneOutcome(r) ==
    CASE route[r] \in IpdataRoutes ->
            /\ pc[r] = "done"
            /\ resp[r] = IpdataResponse(BaseName(r), LookupUrls(route[r], BaseName(r)),
                                        OwnFetched(r), MiddlewareHeaders(route[r]))
      [] route[r] = "ipdata2" ->
            IF HandlerThrows("ipdata2", OwnFetched(r))
            THEN pc[r] = "threw" /\ resp[r] = NoResp
            ELSE /\ pc[r] = "done"
                 /\ resp[r] = Ipdata2Response(query[r].assignee,
                                              Encoded(query[r].assignee), OwnFetched(r))
      [] route[r] \in FullRoutes ->
            /\ pc[r] = "done"
            /\ resp[r].status = 200
            /\ LET drawn == [f \in {"pendingApps", "provisionals", "pctApps",
                                     "foreignNational"} |-> resp[r].counts[f]]
               IN  /\ drawn \in Placeholders
                   /\ resp[r] = FullResponse(BaseName(r), Trimmed(query[r].number),
                                             LookupUrls(route[r], BaseName(r)),
                                             OwnFetched(r), drawn,
                                             MiddlewareHeaders(route[r]))

(* C9: concurrent requests share no mutable state: under every interleaving of
   the lookups and completions of the requests in flight, the response of each
   request (counts and trace) is the one it produces when it runs alone
   against the same upstream answers. *)
C9_Isolated ==
    \A r \in Reqs : (Ended(r) /\ calls[r] # <<>>) => AloneOutcome(r)

\* both requests ended on the same route with the same query, each with the
\* counts of its own, different, answers
C9_Witness ==
    /\ Succeeded("r1")
    /\ Succeeded("r2")
    /\ route["r1"] = "ipdata"
    /\ route["r2"] = "ipdata"
    /\ query["r1"] = query["r2"]
    /\ resp["r1"].counts.patents = 1
    /\ resp["r2"].counts.patents = 0
    /\ resp["r1"].counts.trademarks = 0
    /\ resp["r2"].counts.trademarks = 1

\* the calls request r made to endpoints of the pending-applications registry
PendingCalls(r) == {i \in DOMAIN calls[r] : calls[r][i].source = "ibd"}

(* C10: the pending-applications lookup tries the primary endpoint first and
   the alternate endpoint after the primary has failed, and only then: a
   request whose primary call failed has made two calls to the registry, a
   request whose primary call succeeded (even with zero items) one. *)
C10_Fallback ==
    \A r \in Reqs :
        (route[r] = "ipdata2" /\ Ended(r) /\ calls[r] # <<>> /\ BaseName(r) # <<>>) =>
            Cardinality(PendingCalls(r)) = IF Failed(raw[r]["ibd"]) THEN 2 ELSE 1

====
